---- MODULE Spec2Model ----
(***************************************************************************)
(* Model of shatkon (src/main.go): the interactive wizard built with huh,  *)
(* followed by InitProject, the framework and database dispatch of main,   *)
(* CreateFile, "go mod tidy" and printProjectSummary.                      *)
(*                                                                         *)
(* Paths are sequences of path components, so that filepath.Dir and the    *)
(* recursive directory creation of os.MkdirAll / mkdir -p are computed.    *)
(* Every external command and every file operation has a nondeterministic  *)
(* outcome (it may fail), except that "mkdir" of an existing directory      *)
(* always fails.                                                           *)
(***************************************************************************)
EXTENDS Integers, Sequences, FiniteSets, TLC

VARIABLES
    pc,          \* position of main: "form", "exit1", "mkroot", ... "done", "panic"
    pos,         \* focused field of the form, 1..6
    config,      \* the ProjectConfig the form's fields are bound to
    confirm,     \* answer held by the last Confirm field (bound to no variable)
    rejected,    \* number of inputs a validator has rejected (saturating)
    subIdx,      \* index of the next entry of dirs in InitProject's loop
    initErr,     \* value returned by InitProject
    preexisting, \* whether the working directory held a project before the run
    dirs,        \* directories on disk
    files,       \* files on disk: path -> content
    trace,       \* external commands and file operations performed, in order
    stdout       \* what the program printed

vars == <<pc, pos, config, confirm, rejected, subIdx, initErr, preexisting,
          dirs, files, trace, stdout>>

----------------------------------------------------------------------------
(* Bounds *)

MaxNames == 1
MaxRejected == 1

NamePool == <<"demo1", "demo2", "demo3">>
UserPool == <<"alice", "bob", "carol">>

\* What the user may type into the two text inputs ("" is the empty input).
ProjectNames == {""} \cup {NamePool[i] : i \in 1..MaxNames}
UserIDs == {""} \cup {UserPool[i] : i \in 1..MaxNames}

----------------------------------------------------------------------------
(* Template catalog: each constant is an opaque text, named after itself *)

loggerTemplate == "loggerTemplate"
cfgTemplate == "cfgTemplate"
echoTemplate == "echoTemplate"
echoTemplateWithLogger == "echoTemplateWithLogger"
chiTemplate == "chiTemplate"
fiberTempalte == "fiberTempalte"
ginTemplate == "ginTemplate"
stdLibTemplate == "stdLibTemplate"
sqliteTemplate == "sqliteTemplate"
pgSqlTemplate == "pgSqlTemplate"
mongoDBTemplate == "mongoDBTemplate"

NoTemplate == "<no case>"
\* Content of a file that os.Create truncated and WriteString did not complete.
Truncated == "<truncated>"
\* Content of the files of a project that existed before the run.
OldContent == "<existing file>"

----------------------------------------------------------------------------
(* The form *)

FrameworkOptions == <<"stdlib", "gin", "echo", "fiber", "chi">>
DatabaseOptions_WithMysql == <<"postgresql", "mysql", "mongodb", "sqlite", "none">>

DatabaseOptions == <<"postgresql", "mongodb", "sqlite">>

Range(s) == {s[i] : i \in DOMAIN s}

ValidateGithubUserID(s) ==
    IF s = "" THEN "GitHub UserID cannot be empty" ELSE "nil"

ValidateProjectName(s) ==
    IF s = "" THEN "project name cannot be empty" ELSE "nil"

ValidateLogging_NoCheck(b, framework) == "nil"

ValidateLogging(b, framework) ==
    IF b /\ framework # "echo"
    THEN "logging middleware is only available for Echo framework"
    ELSE "nil"

\* The validator of the focused field, applied to the field's current value.
FieldError(p) ==
    CASE p = 1 -> ValidateGithubUserID(config.GithubUserID)
      [] p = 2 -> ValidateProjectName(config.ProjectName)
      [] p = 5 -> ValidateLogging(config.Logging, config.Framework)
      [] OTHER -> "nil"

\* A Select writes the highlighted option to its variable when it is left; the
\* first option is highlighted while the variable matches no option.
Selected(value, options) == IF value \in Range(options) THEN value ELSE options[1]

Commit(p) ==
    CASE p = 3 -> [config EXCEPT !.Framework = Selected(@, FrameworkOptions)]
      [] p = 4 -> [config EXCEPT !.Database = Selected(@, DatabaseOptions)]
      [] OTHER -> config

NumFields == 6

Form == <<pos, config, confirm, rejected>>
Disk == <<dirs, files>>
Run == <<subIdx, initErr, trace, stdout>>

TypeGithubUserID ==
    /\ pc = "form" /\ pos = 1
    /\ \E s \in UserIDs : config' = [config EXCEPT !.GithubUserID = s]
    /\ UNCHANGED <<pc, pos, confirm, rejected, preexisting, Disk, Run>>

TypeProjectName ==
    /\ pc = "form" /\ pos = 2
    /\ \E s \in ProjectNames : config' = [config EXCEPT !.ProjectName = s]
    /\ UNCHANGED <<pc, pos, confirm, rejected, preexisting, Disk, Run>>

ChooseFramework ==
    /\ pc = "form" /\ pos = 3
    /\ \E f \in Range(FrameworkOptions) : config' = [config EXCEPT !.Framework = f]
    /\ UNCHANGED <<pc, pos, confirm, rejected, preexisting, Disk, Run>>

ChooseDatabase ==
    /\ pc = "form" /\ pos = 4
    /\ \E d \in Range(DatabaseOptions) : config' = [config EXCEPT !.Database = d]
    /\ UNCHANGED <<pc, pos, confirm, rejected, preexisting, Disk, Run>>

ToggleLogging ==
    /\ pc = "form" /\ pos = 5
    /\ config' = [config EXCEPT !.Logging = ~@]
    /\ UNCHANGED <<pc, pos, confirm, rejected, preexisting, Disk, Run>>

ToggleConfirm ==
    /\ pc = "form" /\ pos = NumFields
    /\ confirm' = ~confirm
    /\ UNCHANGED <<pc, pos, config, rejected, preexisting, Disk, Run>>

\* Enter / tab on a field whose validator accepts: the value is committed and
\* the focus moves on.
NextField ==
    /\ pc = "form" /\ pos < NumFields
    /\ FieldError(pos) = "nil"
    /\ config' = Commit(pos)
    /\ pos' = pos + 1
    /\ UNCHANGED <<pc, confirm, rejected, preexisting, Disk, Run>>

\* Enter / tab on a field whose validator returns an error: the error is shown
\* and the focus stays.
RejectField ==
    /\ pc = "form" /\ pos < NumFields
    /\ FieldError(pos) # "nil"
    /\ rejected' = IF rejected < MaxRejected THEN rejected + 1 ELSE rejected
    /\ UNCHANGED <<pc, pos, config, confirm, preexisting, Disk, Run>>

\* shift+tab
PrevField ==
    /\ pc = "form" /\ pos > 1
    /\ pos' = pos - 1
    /\ UNCHANGED <<pc, config, confirm, rejected, preexisting, Disk, Run>>

\* Enter on the last field: form.Run() returns nil and main calls InitProject.
Submit ==
    /\ pc = "form" /\ pos = NumFields
    /\ pc' = "mkroot"
    /\ UNCHANGED <<Form, preexisting, Disk, Run>>

\* ctrl+c: form.Run() returns an error, main prints it and exits with status 1.
Abort ==
    /\ pc = "form"
    /\ pc' = "exit1"
    /\ stdout' = Append(stdout, "Error")
    /\ UNCHANGED <<Form, preexisting, Disk, subIdx, initErr, trace>>

----------------------------------------------------------------------------
(* Paths *)

Root(cfg) == <<cfg.ProjectName>>

\* The dirs slice of InitProject, in its order.
SubDirs(cfg) ==
    << Root(cfg) \o <<"internal", "adapters">>,
       Root(cfg) \o <<"internal", "config">>,
       Root(cfg) \o <<"internal", "core">>,
       Root(cfg) \o <<"internal", "adapters", "handlers">>,
       Root(cfg) \o <<"internal", "adapters", "repository">>,
       Root(cfg) \o <<"internal", "core", "domain">>,
       Root(cfg) \o <<"internal", "core", "ports">>,
       Root(cfg) \o <<"internal", "core", "services">> >>

NumSubDirs == 8

ModulePath(cfg) == "github.com/" \o cfg.GithubUserID \o "/" \o cfg.ProjectName

cfgFilePath(cfg) == Root(cfg) \o <<"internal", "config", "config.go">>
mainPath(cfg) == Root(cfg) \o <<"cmd", "main.go">>
dbFilepath(cfg) == Root(cfg) \o <<"internal", "adapters", "repository", "db.go">>
loggerFilePath(cfg) == Root(cfg) \o <<"pkg", "utils", "logger.go">>

\* filepath.Dir
Dir(p) == SubSeq(p, 1, Len(p) - 1)

\* The directories "mkdir -p p" / os.MkdirAll(p) leaves on disk: p and its parents.
Prefixes(p) == {SubSeq(p, 1, k) : k \in 1..Len(p)}

----------------------------------------------------------------------------
(* The dispatch tables of main *)

frameworkTemplate_FiberAsGin(framework, logging) ==
    CASE framework = "stdlib" -> stdLibTemplate
      [] framework = "echo" -> IF logging THEN echoTemplateWithLogger ELSE echoTemplate
      [] framework = "gin" -> ginTemplate
      [] framework = "chi" -> chiTemplate
      [] framework = "fiber" -> ginTemplate
      [] OTHER -> NoTemplate

frameworkTemplate_PlainEcho(framework, logging) ==
    CASE framework = "stdlib" -> stdLibTemplate
      [] framework = "echo" -> echoTemplate
      [] framework = "gin" -> ginTemplate
      [] framework = "chi" -> chiTemplate
      [] framework = "fiber" -> fiberTempalte
      [] OTHER -> NoTemplate

\* switch config.Framework
frameworkTemplate(framework, logging) ==
    CASE framework = "stdlib" -> stdLibTemplate
      [] framework = "echo" -> IF logging THEN echoTemplateWithLogger ELSE echoTemplate
      [] framework = "gin" -> ginTemplate
      [] framework = "chi" -> chiTemplate
      [] framework = "fiber" -> fiberTempalte
      [] OTHER -> NoTemplate

\* switch config.Database
databaseTemplate(database) ==
    CASE database = "sqlite" -> sqliteTemplate
      [] database = "postgresql" -> pgSqlTemplate
      [] database = "mongodb" -> mongoDBTemplate
      [] OTHER -> NoTemplate

----------------------------------------------------------------------------
(* Commands and file operations *)

Step(op, path, arg, ok) == [op |-> op, path |-> path, arg |-> arg, ok |-> ok]

Log(op, path, arg, ok) == trace' = Append(trace, Step(op, path, arg, ok))

\* The ways CreateFile ends: os.MkdirAll fails, os.Create fails, WriteString
\* fails, or it returns nil.
CreateFileOutcomes == {"MkdirAll", "Create", "WriteString", "nil"}

WithFile(f, path, content) ==
    [p \in DOMAIN f \cup {path} |-> IF p = path THEN content ELSE f[p]]

CreateFile(content, filePath, outcome) ==
    /\ dirs' = IF outcome = "MkdirAll" THEN dirs ELSE dirs \cup Prefixes(Dir(filePath))
    /\ files' = CASE outcome = "nil" -> WithFile(files, filePath, content)
                  [] outcome = "WriteString" -> WithFile(files, filePath, Truncated)
                  [] OTHER -> files
    /\ Log("CreateFile", filePath, content, outcome = "nil")

\* InitProject returns err to main, which calls it as a statement and goes on
\* to the framework switch.
Return(err) ==
    /\ initErr' = err
    /\ pc' = "framework"

----------------------------------------------------------------------------
(* InitProject *)

MkRoot ==
    /\ pc = "mkroot"
    /\ \E ok \in BOOLEAN :
        /\ ok => Root(config) \notin dirs
        /\ Log("mkdir", Root(config), "", ok)
        /\ IF ok
           THEN /\ dirs' = dirs \cup {Root(config)}
                /\ pc' = "mksub"
                /\ UNCHANGED initErr
           ELSE /\ Return("failed to create project directory")
                /\ UNCHANGED dirs
    /\ UNCHANGED <<Form, preexisting, files, subIdx, stdout>>

MkSub ==
    /\ pc = "mksub"
    /\ \E ok \in BOOLEAN :
        /\ Log("mkdir -p", SubDirs(config)[subIdx], "", ok)
        /\ IF ok
           THEN /\ dirs' = dirs \cup Prefixes(SubDirs(config)[subIdx])
                /\ subIdx' = subIdx + 1
                /\ pc' = IF subIdx = NumSubDirs THEN "modinit" ELSE "mksub"
                /\ UNCHANGED initErr
           ELSE /\ Return("failed to create directory")
                /\ UNCHANGED <<dirs, subIdx>>
    /\ UNCHANGED <<Form, preexisting, files, stdout>>

ModInit ==
    /\ pc = "modinit"
    /\ \E ok \in BOOLEAN :
        /\ Log("go mod init", Root(config), ModulePath(config), ok)
        /\ IF ok
           THEN pc' = "gitinit" /\ UNCHANGED initErr
           ELSE Return("failed to initialize go module")
    /\ UNCHANGED <<Form, preexisting, Disk, subIdx, stdout>>

GitInit ==
    /\ pc = "gitinit"
    /\ \E ok \in BOOLEAN :
        /\ Log("git init", Root(config), "", ok)
        /\ IF ok
           THEN pc' = "cfgwrite" /\ UNCHANGED initErr
           ELSE Return("failed to initialize git repository")
    /\ UNCHANGED <<Form, preexisting, Disk, subIdx, stdout>>

WriteConfig ==
    /\ pc = "cfgwrite"
    /\ \E o \in CreateFileOutcomes :
        /\ CreateFile(cfgTemplate, cfgFilePath(config), o)
        /\ Return(o)
    /\ UNCHANGED <<Form, preexisting, subIdx, stdout>>

----------------------------------------------------------------------------
(* main after InitProject *)

\* case "echo" with config.Logging: addEchoLogger(config); its error is dropped.
addEchoLogger ==
    /\ pc = "framework"
    /\ config.Framework = "echo" /\ config.Logging
    /\ \E o \in CreateFileOutcomes : CreateFile(loggerTemplate, loggerFilePath(config), o)
    /\ pc' = "mainwrite"
    /\ UNCHANGED <<Form, preexisting, subIdx, initErr, stdout>>

WriteMain_SkipsDb ==
    /\ \/ pc = "mainwrite"
       \/ pc = "framework" /\ ~(config.Framework = "echo" /\ config.Logging)
    /\ \E o \in CreateFileOutcomes :
         CreateFile(frameworkTemplate(config.Framework, config.Logging), mainPath(config), o)
    /\ pc' = "tidy"
    /\ UNCHANGED <<Form, preexisting, subIdx, initErr, stdout>>

\* The CreateFile call of the matching case; its error is dropped.
WriteMain ==
    /\ \/ pc = "mainwrite"
       \/ pc = "framework" /\ ~(config.Framework = "echo" /\ config.Logging)
    /\ LET t == frameworkTemplate(config.Framework, config.Logging) IN
       IF t = NoTemplate
       THEN UNCHANGED <<Disk, trace>>
       ELSE \E o \in CreateFileOutcomes : CreateFile(t, mainPath(config), o)
    /\ pc' = "database"
    /\ UNCHANGED <<Form, preexisting, subIdx, initErr, stdout>>

WriteDb ==
    /\ pc = "database"
    /\ LET t == databaseTemplate(config.Database) IN
       IF t = NoTemplate
       THEN UNCHANGED <<Disk, trace>>
       ELSE \E o \in CreateFileOutcomes : CreateFile(t, dbFilepath(config), o)
    /\ pc' = "tidy"
    /\ UNCHANGED <<Form, preexisting, subIdx, initErr, stdout>>

Tidy_IgnoresError ==
    /\ pc = "tidy"
    /\ \E ok \in BOOLEAN : Log("go mod tidy", Root(config), "", ok)
    /\ pc' = "summary"
    /\ UNCHANGED <<Form, preexisting, Disk, subIdx, initErr, stdout>>

\* go mod tidy; panic(err) when it fails.
Tidy ==
    /\ pc = "tidy"
    /\ \E ok \in BOOLEAN :
        /\ Log("go mod tidy", Root(config), "", ok)
        /\ pc' = IF ok THEN "summary" ELSE "panic"
    /\ UNCHANGED <<Form, preexisting, Disk, subIdx, initErr, stdout>>

printProjectSummary ==
    /\ pc = "summary"
    /\ stdout' = Append(stdout, "Project Configuration Summary")
    /\ pc' = "done"
    /\ UNCHANGED <<Form, preexisting, Disk, subIdx, initErr, trace>>

----------------------------------------------------------------------------
(* Initial state *)

\* A project left in the working directory by an earlier run.
ExistingConfig ==
    [GithubUserID |-> UserPool[1], ProjectName |-> NamePool[1],
     Framework |-> "gin", Database |-> "sqlite", Logging |-> FALSE]

ExistingDirs ==
    UNION {Prefixes(SubDirs(ExistingConfig)[i]) : i \in 1..NumSubDirs}
        \cup Prefixes(Dir(mainPath(ExistingConfig)))

ExistingFiles ==
    [p \in {cfgFilePath(ExistingConfig), mainPath(ExistingConfig),
            dbFilepath(ExistingConfig)} |-> OldContent]

NoFiles == [p \in {} |-> ""]

dirs0 == IF preexisting THEN ExistingDirs ELSE {}
files0 == IF preexisting THEN ExistingFiles ELSE NoFiles

Init ==
    /\ pc = "form"
    /\ pos = 1
    /\ config = [GithubUserID |-> "", ProjectName |-> "", Framework |-> "",
                 Database |-> "", Logging |-> FALSE]
    /\ confirm = FALSE
    /\ rejected = 0
    /\ subIdx = 1
    /\ initErr = "nil"
    /\ preexisting \in BOOLEAN
    /\ dirs = dirs0
    /\ files = files0
    /\ trace = <<>>
    /\ stdout = <<>>

Next ==
    \/ TypeGithubUserID \/ TypeProjectName \/ ChooseFramework \/ ChooseDatabase
    \/ ToggleLogging \/ ToggleConfirm \/ NextField \/ RejectField \/ PrevField
    \/ Submit \/ Abort
    \/ MkRoot \/ MkSub \/ ModInit \/ GitInit \/ WriteConfig
    \/ addEchoLogger \/ WriteMain \/ WriteDb \/ Tidy \/ printProjectSummary

Spec == Init /\ [][Next]_vars

----------------------------------------------------------------------------
(* Vocabulary of the properties *)

\* InitProject has been called.
Started == pc \notin {"form", "exit1"}

Steps(op) == {i \in DOMAIN trace : trace[i].op = op}
Writes(path) == {i \in Steps("CreateFile") : trace[i].path = path}
Failed == {i \in DOMAIN trace : ~trace[i].ok}
AllSucceeded == Failed = {}
SummaryPrinted == \E i \in DOMAIN stdout : stdout[i] = "Project Configuration Summary"

\* The project root and the generated files, spelled out from the configuration.
ProjRoot == <<config.ProjectName>>
ConfigFile == <<config.ProjectName, "internal", "config", "config.go">>
MainFile == <<config.ProjectName, "cmd", "main.go">>
DbFile == <<config.ProjectName, "internal", "adapters", "repository", "db.go">>
LoggerFile == <<config.ProjectName, "pkg", "utils", "logger.go">>

EchoWithLogging == config.Framework = "echo" /\ config.Logging

\* The catalog as the specification states it.
CatalogMain ==
    CASE config.Framework = "stdlib" -> stdLibTemplate
      [] config.Framework = "gin" -> ginTemplate
      [] config.Framework = "echo" /\ config.Logging -> echoTemplateWithLogger
      [] config.Framework = "echo" /\ ~config.Logging -> echoTemplate
      [] config.Framework = "fiber" -> fiberTempalte
      [] config.Framework = "chi" -> chiTemplate

CatalogDb ==
    CASE config.Database = "sqlite" -> sqliteTemplate
      [] config.Database = "postgresql" -> pgSqlTemplate
      [] config.Database = "mongodb" -> mongoDBTemplate

----------------------------------------------------------------------------
(* C1 *)

\* C1 (as claimed): when the project directory exists before materialization
\* starts, nothing happens after the failed creation of the root directory: no
\* further command or file operation, and the disk stays as it was.
C1_ExistingProjectUntouched ==
    (Started /\ ProjRoot \in dirs0) =>
        /\ Len(trace) <= 1
        /\ dirs = dirs0
        /\ files = files0

----------------------------------------------------------------------------
(* C2 *)

\* C2: in a run in which every step succeeded, for each framework, each of the
\* databases sqlite, postgresql, mongodb and each permitted logging value, the
\* files written are exactly config.go, main.go and db.go, plus logger.go only
\* for echo with logging, and each holds the template the catalog selects.
C2_FileSetAndContents ==
    (pc = "done" /\ AllSucceeded) =>
        /\ {trace[i].path : i \in Steps("CreateFile")}
             = {ConfigFile, MainFile, DbFile}
                 \cup (IF EchoWithLogging THEN {LoggerFile} ELSE {})
        /\ DOMAIN files \ DOMAIN files0
             = {ConfigFile, MainFile, DbFile}
                 \cup (IF EchoWithLogging THEN {LoggerFile} ELSE {})
        /\ files[ConfigFile] = cfgTemplate
        /\ files[MainFile] = CatalogMain
        /\ files[DbFile] = CatalogDb
        /\ EchoWithLogging => files[LoggerFile] = loggerTemplate
        /\ \A p \in DOMAIN files0 : files[p] = files0[p]

C2_Witness ==
    /\ pc = "done" /\ AllSucceeded
    /\ config.Framework = "fiber" /\ config.Database = "mongodb"
    /\ files[MainFile] = fiberTempalte /\ files[DbFile] = mongoDBTemplate

----------------------------------------------------------------------------
(* C3 *)

FrameworkDispatched == pc \in {"database", "tidy", "summary", "done", "panic"}

\* C3: once the framework switch is over, with echo and logging both the logger
\* file (loggerTemplate) and the entry point echoTemplateWithLogger have been
\* written; with echo and no logging only the entry point echoTemplate, and no
\* logger file; for any other framework the logger file is never written.
C3_EchoLogger ==
    /\ FrameworkDispatched /\ EchoWithLogging =>
         /\ \E i \in Writes(LoggerFile) : trace[i].arg = loggerTemplate
         /\ \A i \in Writes(LoggerFile) : trace[i].ok => files[LoggerFile] = loggerTemplate
         /\ \E i \in Writes(MainFile) : trace[i].arg = echoTemplateWithLogger
         /\ \A i \in Writes(MainFile) :
              /\ trace[i].arg = echoTemplateWithLogger
              /\ trace[i].ok => files[MainFile] = echoTemplateWithLogger
    /\ FrameworkDispatched /\ config.Framework = "echo" /\ ~config.Logging =>
         /\ \E i \in Writes(MainFile) : trace[i].arg = echoTemplate
         /\ \A i \in Writes(MainFile) :
              /\ trace[i].arg = echoTemplate
              /\ trace[i].ok => files[MainFile] = echoTemplate
    /\ ~EchoWithLogging =>
         /\ Writes(LoggerFile) = {}
         /\ LoggerFile \notin DOMAIN files

C3_Witness ==
    /\ FrameworkDispatched /\ EchoWithLogging
    /\ LoggerFile \in DOMAIN files /\ files[LoggerFile] = loggerTemplate
    /\ MainFile \in DOMAIN files /\ files[MainFile] = echoTemplateWithLogger

----------------------------------------------------------------------------
(* C4 *)

\* C4: whenever InitProject has been called, GithubUserID and ProjectName are
\* non-empty and Logging implies Framework = echo.
C4_MaterializerGetsValidConfig ==
    Started =>
        /\ config.GithubUserID # ""
        /\ config.ProjectName # ""
        /\ config.Logging => config.Framework = "echo"

\* The materializer starts after the form rejected an input and the user had
\* logging switched on.
C4_Witness ==
    /\ pc = "mkroot"
    /\ rejected > 0
    /\ config.Logging

----------------------------------------------------------------------------
(* C5 *)

InitSteps ==
    Steps("mkdir") \cup Steps("mkdir -p") \cup Steps("go mod init")
        \cup Steps("git init") \cup Writes(ConfigFile)

\* C5 (as claimed): when root or subdirectory creation, module init, VCS init
\* or the config-loader write fails, no later step is executed.
C5_FailFast ==
    \A i \in InitSteps : ~trace[i].ok => i = Len(trace)

----------------------------------------------------------------------------
(* C6 *)

\* C6 (as claimed): after a failed write of a generated file the run never
\* reaches the project summary.
C6_WriteFailureIsFatal ==
    (\E i \in Steps("CreateFile") : ~trace[i].ok) => ~SummaryPrinted /\ pc # "summary"

----------------------------------------------------------------------------
(* C7 *)

TidyFailed == \E i \in Steps("go mod tidy") : ~trace[i].ok

TidyKeepsDisk ==
    pc \in {"tidy", "panic"} =>
        /\ dirs' = dirs
        /\ files' = files
        /\ TidyFailed' => (pc' = "panic" /\ stdout' = stdout)

\* C7: a failing dependency tidy ends the run without the summary, and the
\* tidy step and everything after it leave every directory and file on disk
\* as they were.
C7_TidyFailureKeepsScaffold ==
    /\ [](TidyFailed => pc = "panic" /\ ~SummaryPrinted)
    /\ [][TidyKeepsDisk]_vars

C7_Witness ==
    /\ pc = "panic" /\ TidyFailed
    /\ MainFile \in DOMAIN files /\ files[MainFile] = CatalogMain
    /\ ConfigFile \in DOMAIN files /\ files[ConfigFile] = cfgTemplate
    /\ ProjRoot \in dirs

----------------------------------------------------------------------------
(* C8 *)

DbDispatched == pc \in {"tidy", "summary", "done", "panic"}

\* C8 (as claimed): the database prompt can deliver mysql and none, and for
\* those values no adapter file is written and the run goes on to tidy.
C8_MysqlAndNoneSelectable ==
    /\ (pc = "form" /\ pos = 4) => {"mysql", "none"} \subseteq Range(DatabaseOptions)
    /\ (DbDispatched /\ config.Database \in {"mysql", "none"}) => Writes(DbFile) = {}

\* C8 (amended): the form delivers only postgresql, mongodb or sqlite, so a run
\* that passes the database switch has attempted the adapter write once; the
\* switch has no case for mysql or none.
C8_OnlyHandledDatabasesDelivered ==
    /\ Started => config.Database \in {"postgresql", "mongodb", "sqlite"}
    /\ DbDispatched => Cardinality(Writes(DbFile)) = 1
    /\ databaseTemplate("mysql") = NoTemplate
    /\ databaseTemplate("none") = NoTemplate

C8_Witness ==
    /\ pc = "tidy"
    /\ config.Database = "sqlite"
    /\ \E i \in Writes(DbFile) : trace[i].arg = sqliteTemplate

----------------------------------------------------------------------------
(* C9 *)

\* The eight directories of the skeleton.
Skeleton ==
    {ProjRoot \o d : d \in {<<"internal", "adapters">>,
                            <<"internal", "adapters", "handlers">>,
                            <<"internal", "adapters", "repository">>,
                            <<"internal", "config">>,
                            <<"internal", "core">>,
                            <<"internal", "core", "domain">>,
                            <<"internal", "core", "ports">>,
                            <<"internal", "core", "services">>}}

\* The steps from module init on, in the order claimed.
AfterSkeleton ==
    << Step("go mod init", ProjRoot,
            "github.com/" \o config.GithubUserID \o "/" \o config.ProjectName, TRUE),
       Step("git init", ProjRoot, "", TRUE),
       Step("CreateFile", ConfigFile, cfgTemplate, TRUE) >>
    \o (IF EchoWithLogging
        THEN <<Step("CreateFile", LoggerFile, loggerTemplate, TRUE)>> ELSE <<>>)
    \o << Step("CreateFile", MainFile, CatalogMain, TRUE),
          Step("CreateFile", DbFile, CatalogDb, TRUE),
          Step("go mod tidy", ProjRoot, "", TRUE) >>

----------------------------------------------------------------------------
(* C10 *)

\* C10 (as claimed): when the form completes with "Create this project?"
\* answered No, no directory is created, no file written, no command run.
C10_NoMeansNoProject ==
    (Started /\ ~confirm) =>
        /\ trace = <<>>
        /\ dirs = dirs0
        /\ files = files0

====
